---- MODULE Spec2Model ----
(***************************************************************************)
(* Model of the KYC document verification pipeline (PoV-for-KYC):          *)
(*   src/src/validator.py  DocumentValidator (logic checks, UCS, status)   *)
(*   src/src/extractor.py  FireworksExtractor (retry / fallback / parse)   *)
(*   src/src/processor.py  ImageProcessor (phash, quality gate, resize)    *)
(*   src/src/main.py       KYCPipeline, run_single_file, run_batch         *)
(*                                                                         *)
(* Numbers are scaled integers: scores, confidences and penalties are in   *)
(* hundredths (1.0 = 100), the unified confidence score in thousandths     *)
(* (1.0 = 1000), image quality in raw Laplacian-variance units.            *)
(* Strings are sequences of one-character strings; Optional[T] is a        *)
(* sequence of length 0 (None) or 1 (the value).                           *)
(***************************************************************************)
EXTENDS Integers, Sequences, FiniteSets, TLC

VARIABLES
    \* ---- DocumentValidator.assess, driven on its own (SpecAssess) ----
    extraction,      \* the ExtractionPayload given to assess
    image_quality,   \* the image_quality argument of assess
    outcome,         \* Optional[ValidationOutcome]: the value assess returned
    \* ---- run_batch / run_single_file / KYCPipeline.run / extract (Spec) ----
    files,           \* run_batch: the image files of the input directory
    idx,             \* run_batch: index of the file being processed
    results,         \* run_batch: the results list (one PipelineResult per file)
    summary_written, \* run_batch: summary.json has been written
    escaped,         \* exception type that propagated out of run_batch, or "none"
    seen_hashes,     \* KYCPipeline.seen_hashes of the current pipeline object
    pc,              \* position of the running coroutine
    stage,           \* extract: which _post_with_retry call is running
    attempt,         \* _post_with_retry: the loop variable
    quality,         \* KYCPipeline.run: quality_report.score of the current run
    pending,         \* what the call that just ended returned or raised
    steps,           \* history: the steps KYCPipeline.run performed for this file
    requests,        \* history: the POSTs issued by extract for this file
    call_log,        \* history: outcome of each POST of the current transport call
    sleeps,          \* history: backoff delays slept in the current transport call
    calls,           \* history: finished transport calls of this extract
    \* ---- KYCPipeline.run called several times on one pipeline (SpecPipeline) ----
    tasks,           \* the run() coroutines submitted to the pipeline object
    \* ---- pipelines constructed around a set the caller passes in (SpecShared) ----
    heap,            \* the set objects: identity -> elements
    pipelines,       \* per pipeline, the identity of the set self.seen_hashes refers to
    run_log          \* history: the calls of run made so far, with how they ended

vars == <<extraction, image_quality, outcome, files, idx, results, summary_written,
          escaped, seen_hashes, pc, stage, attempt, quality, pending, steps,
          requests, call_log, sleeps, calls, tasks, heap, pipelines, run_log>>

assessVars == <<extraction, image_quality, outcome>>
sharedVars == <<heap, pipelines, run_log>>
batchVars == <<files, idx, results, summary_written, escaped, seen_hashes, pc, stage,
               attempt, quality, pending, steps, requests, call_log, sleeps, calls>>

\* no pipeline has been given a set by its caller
SharedIdle == heap = <<>> /\ pipelines = <<>> /\ run_log = <<>>

-----------------------------------------------------------------------------
(* Optional values and strings *)

None == <<>>
Some(v) == <<v>>
Val(o) == o[1]

\* Python truthiness of an Optional[str]: None and "" are both falsy.
TruthyStr(o) == o # <<>> /\ o[1] # <<>>

Digits == {"0", "1", "2", "3", "4", "5", "6", "7", "8", "9"}
Upper == {"A", "B", "C", "D", "E", "F", "G", "H", "I", "J", "K", "L", "M",
          "N", "O", "P", "Q", "R", "S", "T", "U", "V", "W", "X", "Y", "Z"}
Whitespace == {" ", "\n", "\t", "\r"}

DigitChar(n) == <<"0", "1", "2", "3", "4", "5", "6", "7", "8", "9">>[n + 1]

\* s[a:b] of Python, for 0 <= a <= b (clipped to the length of s)
Slice(s, a, b) ==
    LET hi == IF b < Len(s) THEN b ELSE Len(s)
    IN  IF a >= hi THEN <<>> ELSE SubSeq(s, a + 1, hi)

\* s.replace(c, "") for a one-character c
RECURSIVE RemoveChar(_, _)
RemoveChar(s, c) ==
    IF s = <<>> THEN <<>>
    ELSE IF Head(s) = c THEN RemoveChar(Tail(s), c)
         ELSE <<Head(s)>> \o RemoveChar(Tail(s), c)

RECURSIVE LStrip(_)
LStrip(s) ==
    IF s # <<>> /\ Head(s) \in Whitespace THEN LStrip(Tail(s)) ELSE s

RECURSIVE RStrip(_)
RStrip(s) ==
    IF s # <<>> /\ s[Len(s)] \in Whitespace THEN RStrip(SubSeq(s, 1, Len(s) - 1)) ELSE s

\* s.strip()
Strip(s) == RStrip(LStrip(s))

\* s.split("\n"): always at least one element
RECURSIVE SplitLines(_)
SplitLines(s) ==
    IF \A i \in 1..Len(s) : s[i] # "\n" THEN <<s>>
    ELSE LET k == CHOOSE i \in 1..Len(s) : s[i] = "\n" /\ \A j \in 1..(i - 1) : s[j] # "\n"
         IN  <<SubSeq(s, 1, k - 1)>> \o SplitLines(SubSeq(s, k + 1, Len(s)))

\* s.startswith(p)
StartsWith(s, p) == Len(p) <= Len(s) /\ SubSeq(s, 1, Len(p)) = p

\* re.match(r"^[class]{lo,hi}$", s): "$" also matches before one trailing newline
MatchClass(s, class, lo, hi) ==
    LET core == IF s # <<>> /\ s[Len(s)] = "\n" THEN SubSeq(s, 1, Len(s) - 1) ELSE s
        ok(t) == Len(t) >= lo /\ Len(t) <= hi /\ \A i \in 1..Len(t) : t[i] \in class
    IN  ok(s) \/ ok(core)

-----------------------------------------------------------------------------
(* src/src/schemas.py, src/src/validator.py *)

\* DocumentType
DocumentType == {"passport", "drivers_license", "unknown"}

\* the comparison with equal dates left out
DateLE_Strict(a, b) ==
    \/ a.y < b.y
    \/ a.y = b.y /\ a.m < b.m
    \/ a.y = b.y /\ a.m = b.m /\ a.d < b.d

\* datetime.date values are records [y, m, d]
DateLE(a, b) ==
    \/ a.y < b.y
    \/ a.y = b.y /\ a.m < b.m
    \/ a.y = b.y /\ a.m = b.m /\ a.d <= b.d

DateGT(a, b) == ~DateLE(a, b)

\* date.strftime("%y%m%d")
TwoDigits(n) == <<DigitChar((n \div 10) % 10), DigitChar(n % 10)>>
Strftime_ymd(dt) == TwoDigits(dt.y % 100) \o TwoDigits(dt.m) \o TwoDigits(dt.d)

\* PASSPORT_NUMBER_PATTERN = ^[A-Z0-9]{6,9}$
PASSPORT_NUMBER_PATTERN(s) == MatchClass(s, Upper \cup Digits, 6, 9)

\* DRIVER_LICENSE_PATTERN = ^[A-Z0-9\-]{5,20}$
DRIVER_LICENSE_PATTERN(s) == MatchClass(s, Upper \cup Digits \cup {"-"}, 5, 20)

\* an issue string: its fixed text and the values formatted into it
Issue(msg, visual, mrz) == [msg |-> msg, visual |-> visual, mrz |-> mrz, cause |-> ""]
PlainIssue(msg) == Issue(msg, <<>>, <<>>)

\* weights and thresholds, in tenths / hundredths / thousandths
PENALTY_DATE_ORDER == 20
PENALTY_BIRTH == 20
PENALTY_DOC_NUMBER == 20
PENALTY_MRZ == 30
max_penalty == 100
ONE == 100
WEIGHT_AI == 4
WEIGHT_IMAGE == 2
WEIGHT_LOGIC == 4
QUALITY_DIVISOR == 100
success_threshold == 900
review_threshold == 700
MRZ_LINE2_MIN == 44

Min(a, b) == IF a < b THEN a ELSE b
Max(a, b) == IF a > b THEN a ELSE b

\* DocumentValidator._select_doc: Optional[document record]
_select_doc(e) ==
    IF e.document_type = "passport" THEN e.passport
    ELSE IF e.document_type = "drivers_license" THEN e.drivers_license
    ELSE IF e.passport # None THEN e.passport ELSE e.drivers_license

\* the cross-check stopping at its first mismatch
_validate_mrz_cross_check_FirstOnly(mrz_raw, doc) ==
    LET lines == SplitLines(Strip(mrz_raw))
    IN  IF Len(lines) < 2
        THEN <<PlainIssue("MRZ incomplete (expected 2+ lines)")>>
        ELSE
          LET line2 == RemoveChar(lines[2], " ")
          IN  IF Len(line2) >= MRZ_LINE2_MIN
              THEN
                LET mrz_doc_num == Strip(RemoveChar(Slice(line2, 0, 9), "<"))
                    mrz_birth == Slice(line2, 13, 19)
                    mrz_expiry == Slice(line2, 21, 27)
                IN  IF /\ TruthyStr(doc.document_number)
                       /\ mrz_doc_num # <<>>
                       /\ ~StartsWith(Val(doc.document_number), Slice(mrz_doc_num, 0, 6))
                    THEN <<Issue("MRZ doc# mismatch", Val(doc.document_number), mrz_doc_num)>>
                    ELSE IF /\ doc.birth_date # None
                            /\ mrz_birth # Strftime_ymd(Val(doc.birth_date))
                         THEN <<Issue("MRZ birth mismatch", Strftime_ymd(Val(doc.birth_date)),
                                      mrz_birth)>>
                         ELSE IF /\ doc.expiry_date # None
                                 /\ mrz_expiry # Strftime_ymd(Val(doc.expiry_date))
                              THEN <<Issue("MRZ expiry mismatch",
                                           Strftime_ymd(Val(doc.expiry_date)), mrz_expiry)>>
                              ELSE <<>>
              ELSE <<>>

\* DocumentValidator._validate_mrz_cross_check: the list of issues
_validate_mrz_cross_check(mrz_raw, doc) ==
    LET lines == SplitLines(Strip(mrz_raw))
    IN  IF Len(lines) < 2
        THEN <<PlainIssue("MRZ incomplete (expected 2+ lines)")>>
        ELSE
          LET line2 == RemoveChar(lines[2], " ")
          IN  IF Len(line2) >= MRZ_LINE2_MIN
              THEN
                LET mrz_doc_num == Strip(RemoveChar(Slice(line2, 0, 9), "<"))
                    mrz_birth == Slice(line2, 13, 19)
                    mrz_expiry == Slice(line2, 21, 27)
                    i1 == IF /\ TruthyStr(doc.document_number)
                             /\ mrz_doc_num # <<>>
                             /\ ~StartsWith(Val(doc.document_number), Slice(mrz_doc_num, 0, 6))
                          THEN <<Issue("MRZ doc# mismatch", Val(doc.document_number), mrz_doc_num)>>
                          ELSE <<>>
                    i2 == IF /\ doc.birth_date # None
                             /\ mrz_birth # Strftime_ymd(Val(doc.birth_date))
                          THEN <<Issue("MRZ birth mismatch", Strftime_ymd(Val(doc.birth_date)), mrz_birth)>>
                          ELSE <<>>
                    i3 == IF /\ doc.expiry_date # None
                             /\ mrz_expiry # Strftime_ymd(Val(doc.expiry_date))
                          THEN <<Issue("MRZ expiry mismatch", Strftime_ymd(Val(doc.expiry_date)), mrz_expiry)>>
                          ELSE <<>>
                IN  i1 \o i2 \o i3
              ELSE <<>>

\* IEEE 754 binary64 values in [0, 2), exactly: the record [n, e] stands for
\* (n * 2^56 + e) / (100 * 2^56), that is n hundredths plus e units of
\* 1 / (100 * 2^56). Every binary64 value of that range at or above 1/16 is a
\* multiple of 2^-56, so e is an integer, and it stays small.
Float(n, e) == [n |-> n, e |-> e]
FLOAT_0_0 == Float(0, 0)
FLOAT_0_2 == Float(20, 80)
FLOAT_0_3 == Float(30, 0 - 80)
FLOAT_1_0 == Float(100, 0)

\* a < b
FloatLess(a, b) == a.n < b.n \/ (a.n = b.n /\ a.e < b.e)
\* min(a, b), max(a, b) of Python
FloatMin(a, b) == IF FloatLess(b, a) THEN b ELSE a
FloatMax(a, b) == IF FloatLess(a, b) THEN b ELSE a

\* the spacing of the binary64 values around x, in units of 2^-56
FloatUlp(x) ==
    LET atLeast(h) == 2 * x.n > h \/ (2 * x.n = h /\ x.e >= 0)   \* x >= h / 200
    IN  IF ~atLeast(25) THEN 1
        ELSE IF ~atLeast(50) THEN 2
        ELSE IF ~atLeast(100) THEN 4
        ELSE IF ~atLeast(200) THEN 8
        ELSE 16

\* the binary64 value nearest to the exact value x, whose spacing is u, given the
\* remainders r of x modulo 2 * u and q of x modulo u: ties go to the even multiple
FloatNearest(x, u, r, q) ==
    Float(x.n, x.e + 100 * (IF 2 * q < u THEN 0 - q
                            ELSE IF 2 * q > u THEN u - q
                            ELSE IF r = q THEN 0 - q ELSE u - q))

\* round the exact value x > 0 to a multiple of u; with m = x * 2^56, m mod 32 is
\* ((n * 2^56 + e) mod 3200) / 100 and 2^56 mod 3200 = 1536
FloatRoundRem(x, u, r) == FloatNearest(x, u, r, r % u)
FloatRoundUlp(x, u) ==
    FloatRoundRem(x, u, (((x.n * 1536 + x.e) % 3200) \div 100) % (2 * u))

\* round the exact value x >= 0 to the nearest binary64 value, ties to even
FloatRound(x) ==
    IF x.n = 0 /\ x.e = 0 THEN x ELSE FloatRoundUlp(x, FloatUlp(x))

\* a + b and a - b in binary64
FloatAdd(a, b) == FloatRound(Float(a.n + b.n, a.e + b.e))
FloatSub(a, b) == FloatRound(Float(a.n - b.n, a.e - b.e))

\* penalties += amount where a rule fired, in binary64
AddPenalty(penalties, fired, amount) ==
    IF fired THEN FloatAdd(penalties, amount) ELSE penalties

\* the logic score as _logic_checks computes it in binary64, given which of the
\* four rules fired: the penalties are added in the order of the code, capped at
\* 1.0, and max(0.0, 1.0 - capped) is returned
LogicScoreFloat(r1, r2, r3, r4) ==
    FloatMax(FLOAT_0_0,
        FloatSub(FLOAT_1_0,
            FloatMin(AddPenalty(AddPenalty(AddPenalty(AddPenalty(FLOAT_0_0,
                         r1, FLOAT_0_2), r2, FLOAT_0_2), r3, FLOAT_0_2), r4, FLOAT_0_3),
                     FLOAT_1_0)))

\* DocumentValidator._logic_checks: [logic_score, issues, flagged]; logic_score is
\* given twice, in hundredths and as the binary64 value the code computes
_logic_checks(e) ==
    LET sel == _select_doc(e)
    IN  IF sel = None
        THEN [logic_score |-> 0,
              logic_score_f |-> FLOAT_0_0,
              issues |-> <<PlainIssue("Missing document payload")>>,
              flagged |-> <<"document_type">>]
        ELSE
          LET doc == Val(sel)
              r1 == /\ doc.expiry_date # None /\ doc.issue_date # None
                    /\ DateLE(Val(doc.expiry_date), Val(doc.issue_date))
              r2 == /\ doc.birth_date # None /\ doc.expiry_date # None
                    /\ DateGT(Val(doc.birth_date), Val(doc.expiry_date))
              r3p == /\ TruthyStr(doc.document_number)
                     /\ e.document_type = "passport"
                     /\ ~PASSPORT_NUMBER_PATTERN(Val(doc.document_number))
              r3l == /\ TruthyStr(doc.document_number)
                     /\ e.document_type = "drivers_license"
                     /\ ~DRIVER_LICENSE_PATTERN(Val(doc.document_number))
              mrz_issues == IF e.document_type = "passport" /\ TruthyStr(doc.mrz_raw)
                            THEN _validate_mrz_cross_check(Val(doc.mrz_raw), doc)
                            ELSE <<>>
              r4 == mrz_issues # <<>>
              penalties == (IF r1 THEN PENALTY_DATE_ORDER ELSE 0)
                           + (IF r2 THEN PENALTY_BIRTH ELSE 0)
                           + (IF r3p \/ r3l THEN PENALTY_DOC_NUMBER ELSE 0)
                           + (IF r4 THEN PENALTY_MRZ ELSE 0)
              capped == Min(penalties, max_penalty)
          IN  [logic_score |-> Max(0, ONE - capped),
               logic_score_f |-> LogicScoreFloat(r1, r2, r3p \/ r3l, r4),
               issues |->
                   (IF r1 THEN <<PlainIssue("Expiry must be later than issue date.")>> ELSE <<>>)
                   \o (IF r2 THEN <<PlainIssue("Birth date after expiry.")>> ELSE <<>>)
                   \o (IF r3p THEN <<PlainIssue("Passport number pattern mismatch.")>> ELSE <<>>)
                   \o (IF r3l THEN <<PlainIssue("Driver license number pattern mismatch.")>> ELSE <<>>)
                   \o mrz_issues,
               flagged |->
                   (IF r1 THEN <<"expiry_date">> ELSE <<>>)
                   \o (IF r2 THEN <<"birth_date">> ELSE <<>>)
                   \o (IF r3p \/ r3l THEN <<"document_number">> ELSE <<>>)
                   \o (IF r4 THEN <<"mrz_raw">> ELSE <<>>)]

\* _status_from_score with the success threshold made exclusive
_status_from_score_Strict(ucs) ==
    IF ucs > success_threshold THEN "SUCCESS"
    ELSE IF ucs >= review_threshold THEN "MANUAL_REVIEW"
    ELSE "RETRY_UPLOAD"

\* DocumentValidator._status_from_score
_status_from_score(ucs) ==
    IF ucs >= success_threshold THEN "SUCCESS"
    ELSE IF ucs >= review_threshold THEN "MANUAL_REVIEW"
    ELSE "RETRY_UPLOAD"

\* max(0.0, min(x, 1.0)) in hundredths
Clamp01(x) == Max(0, Min(x, ONE))

\* ai_prob without the clamp
AiProb_NoClamp(ai_confidence) == ai_confidence

\* ai_prob of assess: ai_confidence is in hundredths
AiProb(ai_confidence) == Clamp01(ai_confidence)

\* image_score of assess: image_quality / 100.0 clamped; in hundredths that is the
\* raw score clamped to [0, 100]
ImageScore(q) == Clamp01((q * ONE) \div QUALITY_DIVISOR)

\* ucs of assess, in thousandths
Ucs(ai_confidence, q, logic_score) ==
    AiProb(ai_confidence) * WEIGHT_AI + ImageScore(q) * WEIGHT_IMAGE
        + logic_score * WEIGHT_LOGIC

\* DocumentValidator.assess: the ValidationOutcome
assess(e, q) ==
    LET lc == _logic_checks(e)
        ucs == Ucs(e.ai_confidence, q, lc.logic_score)
    IN  [status |-> _status_from_score(ucs), ucs |-> ucs, logic_score |-> lc.logic_score,
         logic_score_f |-> lc.logic_score_f,
         issues |-> lc.issues, flagged_fields |-> lc.flagged]

-----------------------------------------------------------------------------
(* Bounded inputs of DocumentValidator.assess *)

Date(y, m, d) == [y |-> y, m |-> m, d |-> d]

BirthDates == {None, Some(Date(1990, 5, 17)), Some(Date(2031, 6, 30))}
IssueDates == {None, Some(Date(2020, 1, 1))}
ExpiryDates == {None, Some(Date(2019, 1, 1)), Some(Date(2020, 1, 1)), Some(Date(2030, 1, 1))}

NumAB123456 == <<"A", "B", "1", "2", "3", "4", "5", "6">>
NumShort == <<"A", "1">>
NumLicense == <<"D", "-", "1", "2", "3", "4", "5">>
DocumentNumbers == {None, Some(NumAB123456), Some(NumShort), Some(NumLicense)}

\* line 2 of a TD3 machine-readable zone: 44 characters
MrzLine2(num9, birth6, expiry6) ==
    num9 \o <<"1", "U", "T", "O">> \o birth6 \o <<"2", "M">> \o expiry6 \o <<"3">>
         \o <<"<", "<", "<", "<", "<", "<", "<", "<", "<", "<", "<", "<", "<", "<">>
         \o <<"0", "4">>
MrzLine1 == <<"P", "<", "U", "T", "O", "D", "O", "E", "<", "<", "J">>
MrzNum9 == NumAB123456 \o <<"<">>
Mrz900517 == <<"9", "0", "0", "5", "1", "7">>
Mrz900101 == <<"9", "0", "0", "1", "0", "1">>
Mrz300101 == <<"3", "0", "0", "1", "0", "1">>
MrzGood == MrzLine1 \o <<"\n">> \o MrzLine2(MrzNum9, Mrz900517, Mrz300101) \o <<"\n">>
MrzBirthOff == MrzLine1 \o <<"\n">> \o MrzLine2(MrzNum9, Mrz900101, Mrz300101)
MrzOneLine == MrzLine1
MrzShortLine2 == MrzLine1 \o <<"\n">> \o MrzNum9 \o Mrz900101
MrzValues == {None, Some(MrzGood), Some(MrzBirthOff), Some(MrzOneLine), Some(MrzShortLine2)}

Docs == [birth_date : BirthDates, document_number : DocumentNumbers,
         issue_date : IssueDates, expiry_date : ExpiryDates, mrz_raw : MrzValues]

\* a record with every field absent
EmptyDoc == [birth_date |-> None, document_number |-> None, issue_date |-> None,
             expiry_date |-> None, mrz_raw |-> None]

OptDocs == {None} \cup {Some(d) : d \in Docs}
FewDocs == {None, Some(EmptyDoc)}

\* ai_confidence in hundredths; the schema keeps it in [0, 100], assess clamps anyway
AiValues == {0 - 20, 0, 75, 100, 130}
\* image quality scores (Laplacian variance)
QualityValues == {0 - 5, 0, 50, 100, 250}

Payload(t, ai, p, l) ==
    [document_type |-> t, ai_confidence |-> ai, passport |-> p, drivers_license |-> l]

Payloads ==
    {Payload(t, ai, p, l) : t \in DocumentType, ai \in AiValues, p \in OptDocs, l \in FewDocs}
    \cup {Payload(t, ai, p, l) : t \in DocumentType, ai \in AiValues, p \in FewDocs, l \in OptDocs}

-----------------------------------------------------------------------------
(* DocumentValidator.assess on its own *)

Idle ==
    /\ files = <<>> /\ idx = 0 /\ results = <<>> /\ summary_written = FALSE
    /\ escaped = "none" /\ seen_hashes = {} /\ pc = "idle" /\ stage = "none"
    /\ attempt = 0 /\ quality = 0 /\ pending = None /\ steps = <<>> /\ requests = <<>>
    /\ call_log = <<>> /\ sleeps = <<>> /\ calls = <<>>
    /\ tasks = <<>>
    /\ SharedIdle

InitAssess ==
    /\ extraction \in Payloads
    /\ image_quality \in QualityValues
    /\ outcome = None
    /\ Idle

Assess ==
    /\ pc = "idle"
    /\ outcome = None
    /\ outcome' = Some(assess(extraction, image_quality))
    /\ UNCHANGED <<extraction, image_quality>>
    /\ UNCHANGED <<batchVars, tasks, sharedVars>>

NextAssess == Assess

SpecAssess == InitAssess /\ [][NextAssess]_vars

-----------------------------------------------------------------------------
(* src/src/exceptions.py, src/src/processor.py, src/src/main.py constants *)

QUALITY_THRESHOLD == 80
MAX_RETRIES == 3
\* BACKOFF_BASE = 0.8 s, in tenths of a second
BACKOFF_BASE == 8
MODEL == "accounts/fireworks/models/qwen2p5-vl-32b-instruct"
FALLBACK_MODEL == "accounts/fireworks/models/qwen2p5-vl-32b-instruct"

\* the statuses _post_with_retry retries
RETRYABLE_STATUS == {429, 500, 502, 503, 504}

\* a call's result: the value returned, or the exception raised
Ok(v) == [exc |-> None, value |-> Some(v)]
Raise(type, msg) == [exc |-> Some([type |-> type, msg |-> msg]), value |-> None]
Raised(r) == r.exc # None
ExcType(r) == Val(r.exc).type
ExcMsg(r) == Val(r.exc).msg

-----------------------------------------------------------------------------
(* Bounded inputs of the pipeline *)

MaxFiles == 2

\* Image files: the bytes, whether PIL can open them, whether OpenCV can decode
\* them, the variance of the Laplacian, and the perceptual hash of the pixels.
Image(b, pil, cv, variance, phash) ==
    [bytes |-> b, pil_opens |-> pil, cv_decodes |-> cv, variance |-> variance, phash |-> phash]
ImgSharp == Image("sharp", TRUE, TRUE, 80, "00ff00ff00ff00ff")
ImgBlurry == Image("blurry", TRUE, TRUE, 79, "8000000000000000")
ImgGarbage == Image("garbage", FALSE, FALSE, 0, "")
ImgGif == Image("gif", TRUE, FALSE, 0, "00ff00ff00ff00ff")
Images == {ImgSharp, ImgBlurry, ImgGarbage, ImgGif}

Batches == UNION {[1..n -> Images] : n \in 0..MaxFiles}

\* payloads the model service may answer with
GoodPassport ==
    [birth_date |-> Some(Date(1990, 5, 17)), document_number |-> Some(NumAB123456),
     issue_date |-> Some(Date(2020, 1, 1)), expiry_date |-> Some(Date(2030, 1, 1)),
     mrz_raw |-> Some(MrzGood)]
PayloadClean == Payload("passport", 100, Some(GoodPassport), None)
PayloadMrzOff ==
    Payload("passport", 75, Some([GoodPassport EXCEPT !.mrz_raw = Some(MrzBirthOff)]), None)
PayloadNoDoc == Payload("unknown", 50, None, None)
ServicePayloads == {PayloadClean, PayloadMrzOff, PayloadNoDoc}

\* HTTP 200 bodies: a chat completion whose first message holds a valid payload, or
\* one of the malformed shapes
Body(tag, payload) == [tag |-> tag, payload |-> payload]
Bodies ==
    {Body("valid", Some(p)) : p \in ServicePayloads}
    \cup {Body(t, None) : t \in {"not_json", "no_choices", "empty_choices",
                                 "content_not_json", "schema_invalid"}}

HttpStatuses == {200, 404, 503}

\* what one POST can end in: an HTTP response or a network/timeout error
Response(code, body) == [kind |-> "status", code |-> code, body |-> body]
NetworkError == [kind |-> "network", code |-> 0, body |-> Body("none", None)]
PostOutcomes ==
    {Response(200, b) : b \in Bodies}
    \cup {Response(c, Body("none", None)) : c \in HttpStatuses \ {200}}
    \cup {NetworkError}

-----------------------------------------------------------------------------
(* src/src/processor.py *)

\* ImageProcessor.calculate_phash: Image.open raises PIL.UnidentifiedImageError on
\* bytes PIL cannot identify
calculate_phash(img) ==
    IF img.pil_opens THEN Ok(img.phash)
    ELSE Raise("UnidentifiedImageError", "cannot identify image file")

\* ImageProcessor.quality_check (the blur message also carries the two numbers)
quality_check(img) ==
    IF ~img.cv_decodes
    THEN Raise("TechnicalRejectError", "Invalid image input; cannot decode.")
    ELSE IF img.variance < QUALITY_THRESHOLD
         THEN Raise("TechnicalRejectError", "Image too blurry")
         ELSE Ok(img.variance)

-----------------------------------------------------------------------------
(* src/src/extractor.py *)

\* the body extract posts at each stage, and the model it names
BodyOf(st) == IF st = "fallback" THEN "fallback_body" ELSE "body"
ModelOf(st) == IF st = "fallback" THEN FALLBACK_MODEL ELSE MODEL

\* FireworksExtractor._parse_payload on the JSON body of a 200 response (the
\* message of SchemaValidationError also carries the text of its cause)
_parse_payload(body) ==
    CASE body.tag = "valid" -> Ok(Val(body.payload))
      [] body.tag = "no_choices" ->
            Raise("SchemaValidationError", "Failed to parse structured output")
      [] body.tag = "content_not_json" ->
            Raise("SchemaValidationError", "Failed to parse structured output")
      [] body.tag = "schema_invalid" ->
            Raise("SchemaValidationError", "Failed to parse structured output")
      [] body.tag = "empty_choices" -> Raise("IndexError", "list index out of range")

\* the loop body with every HTTP error status treated as retryable
PostStep_RetryEveryStatus(o, att) ==
    IF o.kind = "network"
    THEN IF att = MAX_RETRIES - 1
         THEN [next |-> "raise", result |-> Raise("ModelCallError", "RequestError")]
         ELSE [next |-> "sleep", result |-> Ok(o.body)]
    ELSE IF o.code = 200
         THEN IF o.body.tag = "not_json"
              THEN [next |-> "raise", result |-> Raise("JSONDecodeError", "Expecting value")]
              ELSE [next |-> "return", result |-> Ok(o.body)]
         ELSE [next |-> "sleep", result |-> Ok(o.body)]

\* _post_with_retry, one pass of the loop body: what the POST's outcome o leads to
\* on attempt number att: "return", "raise" or "sleep"
PostStep(o, att) ==
    IF o.kind = "network"
    THEN IF att = MAX_RETRIES - 1
         THEN [next |-> "raise", result |-> Raise("ModelCallError", "RequestError")]
         ELSE [next |-> "sleep", result |-> Ok(o.body)]
    ELSE IF o.code = 200
         THEN IF o.body.tag = "not_json"
              THEN [next |-> "raise", result |-> Raise("JSONDecodeError", "Expecting value")]
              ELSE [next |-> "return", result |-> Ok(o.body)]
         ELSE IF o.code \notin RETRYABLE_STATUS
              THEN [next |-> "raise", result |-> Raise("ModelCallError", "HTTPStatusError")]
              ELSE [next |-> "sleep", result |-> Ok(o.body)]

\* the loop running one pass too many
AfterSleep_OneMore(att) == IF att + 1 <= MAX_RETRIES THEN "post" ELSE "raise"

\* _post_with_retry after the backoff sleep of attempt att: another pass, or the
\* raise that follows the loop
AfterSleep(att) == IF att + 1 < MAX_RETRIES THEN "post" ELSE "raise"

\* asyncio.sleep(backoff_base * 2 ** attempt), in tenths of a second
BackoffDelay(att) == BACKOFF_BASE * (2 ^ att)

\* extract with the inner "except SchemaValidationError: pass" re-raising instead
ExtractNext_RaiseAfterRetry(st, r) ==
    IF ~Raised(r) THEN "return"
    ELSE IF st = "primary"
         THEN IF ExcType(r) = "SchemaValidationError" THEN "retry"
              ELSE IF ExcType(r) = "ModelCallError" THEN "fallback"
              ELSE "raise"
         ELSE "raise"

\* extract: where control goes when the transport call and the parse of stage st
\* ended in r (a payload or an exception)
ExtractNext(st, r) ==
    IF ~Raised(r) THEN "return"
    ELSE IF st = "primary"
         THEN IF ExcType(r) = "SchemaValidationError" THEN "retry"
              ELSE IF ExcType(r) = "ModelCallError" THEN "fallback"
              ELSE "raise"
         ELSE IF st = "retry"
              THEN IF ExcType(r) = "SchemaValidationError" THEN "fallback" ELSE "raise"
              ELSE "raise"

-----------------------------------------------------------------------------
(* src/src/main.py *)

PipelineResult(status, score, logic_score, phash, issues, flagged_fields, payload) ==
    [status |-> status, score |-> score, logic_score |-> logic_score, phash |-> phash,
     issues |-> issues, flagged_fields |-> flagged_fields, payload |-> payload]

\* run with the fingerprint never added to the set
RunStart_NoRecord(img, seen) ==
    LET ph == calculate_phash(img)
    IN  IF Raised(ph)
        THEN [result |-> ph, seen |-> seen, steps |-> <<"calculate_phash">>]
        ELSE IF Val(ph.value) \in seen
             THEN [result |-> Raise("TechnicalRejectError", "Duplicate upload detected."),
                   seen |-> seen, steps |-> <<"calculate_phash", "dedup">>]
             ELSE LET q == quality_check(img)
                  IN  IF Raised(q)
                      THEN [result |-> q, seen |-> seen,
                            steps |-> <<"calculate_phash", "dedup", "quality_check">>]
                      ELSE [result |-> q, seen |-> seen,
                            steps |-> <<"calculate_phash", "dedup", "quality_check",
                                        "smart_resize", "extract">>]

\* run going on to extract although the quality gate rejected the image
RunStart_NoGate(img, seen) ==
    LET ph == calculate_phash(img)
    IN  IF Raised(ph)
        THEN [result |-> ph, seen |-> seen, steps |-> <<"calculate_phash">>]
        ELSE IF Val(ph.value) \in seen
             THEN [result |-> Raise("TechnicalRejectError", "Duplicate upload detected."),
                   seen |-> seen, steps |-> <<"calculate_phash", "dedup">>]
             ELSE [result |-> Ok(img.variance), seen |-> seen \cup {Val(ph.value)},
                   steps |-> <<"calculate_phash", "dedup", "quality_check",
                               "smart_resize", "extract">>]

\* run adding the fingerprint only once the quality gate has passed
RunStart_RecordAfterGate(img, seen) ==
    LET ph == calculate_phash(img)
    IN  IF Raised(ph)
        THEN [result |-> ph, seen |-> seen, steps |-> <<"calculate_phash">>]
        ELSE IF Val(ph.value) \in seen
             THEN [result |-> Raise("TechnicalRejectError", "Duplicate upload detected."),
                   seen |-> seen, steps |-> <<"calculate_phash", "dedup">>]
             ELSE LET q == quality_check(img)
                  IN  IF Raised(q)
                      THEN [result |-> q, seen |-> seen,
                            steps |-> <<"calculate_phash", "dedup", "quality_check">>]
                      ELSE [result |-> q, seen |-> seen \cup {Val(ph.value)},
                            steps |-> <<"calculate_phash", "dedup", "quality_check",
                                        "smart_resize", "extract">>]

\* KYCPipeline.run up to its first await: fingerprint, duplicate check, quality gate,
\* resize. seen is self.seen_hashes.
RunStart(img, seen) ==
    LET ph == calculate_phash(img)
    IN  IF Raised(ph)
        THEN [result |-> ph, seen |-> seen, steps |-> <<"calculate_phash">>]
        ELSE IF Val(ph.value) \in seen
             THEN [result |-> Raise("TechnicalRejectError", "Duplicate upload detected."),
                   seen |-> seen, steps |-> <<"calculate_phash", "dedup">>]
             ELSE LET q == quality_check(img)
                  IN  IF Raised(q)
                      THEN [result |-> q, seen |-> seen \cup {Val(ph.value)},
                            steps |-> <<"calculate_phash", "dedup", "quality_check">>]
                      ELSE [result |-> q, seen |-> seen \cup {Val(ph.value)},
                            steps |-> <<"calculate_phash", "dedup", "quality_check",
                                        "smart_resize", "extract">>]

\* KYCPipeline.run after extract returned payload p
RunEnd(p, q, phash) ==
    LET o == assess(p, q)
    IN  PipelineResult(o.status, o.ucs, o.logic_score, phash, o.issues, o.flagged_fields,
                       Some(p))

\* run_single_file catching ModelCallError only
run_single_file_NoSchemaCatch(r) ==
    IF ~Raised(r) THEN r
    ELSE IF ExcType(r) = "TechnicalRejectError"
         THEN Ok(PipelineResult("RETRY_UPLOAD", 0, 0, "", <<PlainIssue(ExcMsg(r))>>, <<>>, None))
         ELSE IF ExcType(r) = "ModelCallError"
              THEN Ok(PipelineResult("SYSTEM_ERROR", 0, 0, "",
                        <<[PlainIssue("API/parsing failure: ") EXCEPT !.cause = ExcMsg(r)]>>,
                        <<>>, None))
              ELSE r

\* run_single_file: the try/except around pipeline.run; r is what run returned or
\* raised. The result is returned, or the exception propagates.
run_single_file(r) ==
    IF ~Raised(r) THEN r
    ELSE IF ExcType(r) = "TechnicalRejectError"
         THEN Ok(PipelineResult("RETRY_UPLOAD", 0, 0, "", <<PlainIssue(ExcMsg(r))>>, <<>>, None))
         ELSE IF ExcType(r) \in {"ModelCallError", "SchemaValidationError"}
              THEN Ok(PipelineResult("SYSTEM_ERROR", 0, 0, "",
                        <<[PlainIssue("API/parsing failure: ") EXCEPT !.cause = ExcMsg(r)]>>,
                        <<>>, None))
              ELSE r

-----------------------------------------------------------------------------
(* run_batch over a directory of image files *)

AssessIdle ==
    /\ extraction = PayloadNoDoc /\ image_quality = 0 /\ outcome = None

Init ==
    /\ AssessIdle
    /\ files \in Batches
    /\ idx = 1
    /\ results = <<>>
    /\ summary_written = FALSE
    /\ escaped = "none"
    /\ seen_hashes = {}
    /\ pc = "next_file"
    /\ stage = "none"
    /\ attempt = 0
    /\ quality = 0
    /\ pending = None
    /\ steps = <<>> /\ requests = <<>> /\ call_log = <<>> /\ sleeps = <<>> /\ calls = <<>>
    /\ tasks = <<>>
    /\ SharedIdle

\* history record of a transport call of extract: the body it posted, how many
\* POSTs and sleeps it made, how it ended ("ok" or the exception type), and how the
\* parse of its response ended ("none" until extract has handled the call)
CallRecord(st, log, slept, r) ==
    [stage |-> st, body |-> BodyOf(st), posts |-> Len(log), sleeps |-> Len(slept),
     result |-> IF Raised(r) THEN ExcType(r) ELSE "ok", parse |-> "none"]

\* run_batch: no image file in the directory, return the empty summary
BatchEmpty ==
    /\ pc = "next_file"
    /\ files = <<>>
    /\ pc' = "batch_done"
    /\ UNCHANGED <<files, idx, results, summary_written, escaped, seen_hashes, stage,
                   attempt, quality, pending, steps, requests, call_log, sleeps, calls>>
    /\ UNCHANGED <<assessVars, tasks, sharedVars>>

\* run_batch loop body -> run_single_file -> KYCPipeline(api_key).run, up to the
\* first POST of extract (or to the exception raised before it)
BeginFile ==
    /\ pc = "next_file"
    /\ idx <= Len(files)
    /\ LET r == RunStart(files[idx], {})
       IN  /\ seen_hashes' = r.seen
           /\ steps' = r.steps
           /\ IF Raised(r.result)
              THEN /\ pc' = "run_done"
                   /\ pending' = Some(r.result)
                   /\ stage' = "none"
                   /\ quality' = 0
              ELSE /\ pc' = "post"
                   /\ pending' = None
                   /\ stage' = "primary"
                   /\ quality' = Val(r.result.value)
    /\ attempt' = 0
    /\ requests' = <<>> /\ call_log' = <<>> /\ sleeps' = <<>> /\ calls' = <<>>
    /\ UNCHANGED <<files, idx, results, summary_written, escaped>>
    /\ UNCHANGED <<assessVars, tasks, sharedVars>>

\* _post_with_retry: one POST and the handling of its outcome
Post(o) ==
    /\ pc = "post"
    /\ LET step == PostStep(o, attempt)
           log == Append(call_log, o)
       IN  /\ requests' = Append(requests, [model |-> ModelOf(stage), body |-> BodyOf(stage)])
           /\ call_log' = log
           /\ IF step.next = "sleep"
              THEN /\ pc' = "sleep"
                   /\ UNCHANGED <<pending, calls>>
              ELSE /\ pc' = "call_done"
                   /\ pending' = Some(step.result)
                   /\ calls' = Append(calls, CallRecord(stage, log, sleeps, step.result))
    /\ UNCHANGED <<files, idx, results, summary_written, escaped, seen_hashes, stage,
                   attempt, quality, steps, sleeps>>
    /\ UNCHANGED <<assessVars, tasks, sharedVars>>

\* _post_with_retry: the backoff sleep ends; next pass of the loop, or the raise
\* after the loop
Sleep ==
    /\ pc = "sleep"
    /\ sleeps' = Append(sleeps, BackoffDelay(attempt))
    /\ IF AfterSleep(attempt) = "post"
       THEN /\ pc' = "post"
            /\ attempt' = attempt + 1
            /\ UNCHANGED <<pending, calls>>
       ELSE /\ pc' = "call_done"
            /\ attempt' = attempt
            /\ pending' = Some(Raise("ModelCallError", "Model call failed after retries."))
            /\ calls' = Append(calls,
                   CallRecord(stage, call_log, sleeps',
                              Raise("ModelCallError", "Model call failed after retries.")))
    /\ UNCHANGED <<files, idx, results, summary_written, escaped, seen_hashes, stage,
                   quality, steps, requests, call_log>>
    /\ UNCHANGED <<assessVars, tasks, sharedVars>>

\* extract after a transport call ended: parse the response, then return, raise,
\* or start the next transport call; on return KYCPipeline.run goes on to the end
HandleCall ==
    /\ pc = "call_done"
    /\ LET r == IF Raised(Val(pending)) THEN Val(pending)
                ELSE _parse_payload(Val(Val(pending).value))
           next == ExtractNext(stage, r)
       IN  /\ calls' = [calls EXCEPT ![Len(calls)].parse =
                                      IF Raised(r) THEN ExcType(r) ELSE "ok"]
           /\ IF next \in {"retry", "fallback"}
              THEN /\ stage' = next
                   /\ pc' = "post"
                   /\ attempt' = 0
                   /\ pending' = None
                   /\ call_log' = <<>>
                   /\ sleeps' = <<>>
                   /\ UNCHANGED steps
              ELSE /\ pc' = "run_done"
                   /\ pending' = IF next = "return"
                                 THEN Some(Ok(RunEnd(Val(r.value), quality, files[idx].phash)))
                                 ELSE Some(r)
                   /\ steps' = IF next = "return" THEN Append(steps, "assess") ELSE steps
                   /\ UNCHANGED <<stage, attempt, call_log, sleeps>>
    /\ UNCHANGED <<files, idx, results, summary_written, escaped, seen_hashes, quality,
                   requests>>
    /\ UNCHANGED <<assessVars, tasks, sharedVars>>

\* run_single_file's except clauses, then the rest of the run_batch loop body; after
\* the last file the summary is written
FinishRun ==
    /\ pc = "run_done"
    /\ LET r == run_single_file(Val(pending))
       IN  IF Raised(r)
           THEN /\ escaped' = ExcType(r)
                /\ pc' = "aborted"
                /\ UNCHANGED <<results, idx, summary_written>>
           ELSE /\ results' = Append(results,
                       [file |-> files[idx].bytes, result |-> Val(r.value),
                        raised |-> Val(pending).exc])
                /\ escaped' = escaped
                /\ IF idx = Len(files)
                   THEN /\ summary_written' = TRUE
                        /\ pc' = "batch_done"
                        /\ idx' = idx
                   ELSE /\ summary_written' = summary_written
                        /\ pc' = "next_file"
                        /\ idx' = idx + 1
    /\ pending' = None
    /\ stage' = "none"
    /\ attempt' = 0
    /\ quality' = 0
    /\ steps' = <<>> /\ requests' = <<>> /\ call_log' = <<>> /\ sleeps' = <<>> /\ calls' = <<>>
    /\ UNCHANGED <<files, seen_hashes>>
    /\ UNCHANGED <<assessVars, tasks, sharedVars>>

Next ==
    \/ BatchEmpty
    \/ BeginFile
    \/ \E o \in PostOutcomes : Post(o)
    \/ Sleep
    \/ HandleCall
    \/ FinishRun

Spec == Init /\ [][Next]_vars

\* both drivers side by side: a batch run, or assess called on its own
InitAll == Init \/ InitAssess
NextAll == Next \/ NextAssess
SpecAll == InitAll /\ [][NextAll]_vars

-----------------------------------------------------------------------------
(* KYCPipeline.run called several times on one KYCPipeline object, the calls      *)
(* running as coroutines of one event loop: a coroutine runs without interruption *)
(* from one await to the next (the POST and the backoff sleep of                  *)
(* _post_with_retry), and the loop may resume any coroutine that is waiting.      *)

MaxTasks == 2

\* a second sharp document, with a fingerprint of its own
ImgSharpB == Image("sharp_b", TRUE, TRUE, 120, "ff00ff00ff00ff00")
PipelineImages == Images \cup {ImgSharpB}

\* what a POST of these runs can end in
PipelineOutcomes ==
    {Response(200, Body("valid", Some(PayloadClean))),
     Response(200, Body("content_not_json", None)),
     Response(404, Body("none", None)),
     Response(503, Body("none", None))}

\* a call of run that has not started to execute: pc is the coroutine's position,
\* result what run returned or raised, steps the steps the call performed, and
\* requested whether it has posted a request to the model service
NewTask(img) ==
    [img |-> img, pc |-> "ready", stage |-> "none", attempt |-> 0, quality |-> 0,
     pending |-> None, result |-> None, steps |-> <<>>, requested |-> FALSE]

pipelineIdleVars == <<files, idx, results, summary_written, escaped, pc, stage, attempt,
                      quality, pending, steps, requests, call_log, sleeps, calls,
                      sharedVars>>

\* KYCPipeline(api_key): seen_hashes starts empty
InitPipeline ==
    /\ AssessIdle
    /\ files = <<>> /\ idx = 0 /\ results = <<>> /\ summary_written = FALSE
    /\ escaped = "none" /\ pc = "pipeline" /\ stage = "none" /\ attempt = 0
    /\ quality = 0 /\ pending = None /\ steps = <<>> /\ requests = <<>>
    /\ call_log = <<>> /\ sleeps = <<>> /\ calls = <<>>
    /\ seen_hashes = {}
    /\ tasks \in [1..MaxTasks -> {NewTask(img) : img \in PipelineImages}]
    /\ SharedIdle

\* KYCPipeline.run from its entry to the first await (the first POST of extract),
\* or to the exception raised before it
TaskRun(t) ==
    /\ pc = "pipeline"
    /\ tasks[t].pc = "ready"
    /\ LET r == RunStart(tasks[t].img, seen_hashes)
       IN  /\ seen_hashes' = r.seen
           /\ tasks' = [tasks EXCEPT ![t] =
                  IF Raised(r.result)
                  THEN [@ EXCEPT !.pc = "done", !.result = Some(r.result), !.steps = r.steps]
                  ELSE [@ EXCEPT !.pc = "post", !.stage = "primary",
                                 !.quality = Val(r.result.value), !.steps = r.steps]]
    /\ UNCHANGED pipelineIdleVars
    /\ UNCHANGED assessVars

\* _post_with_retry of task t: the awaited POST ends in o
TaskPost(t, o) ==
    /\ pc = "pipeline"
    /\ tasks[t].pc = "post"
    /\ LET step == PostStep(o, tasks[t].attempt)
       IN  tasks' = [tasks EXCEPT ![t] =
               IF step.next = "sleep"
               THEN [@ EXCEPT !.pc = "sleep", !.requested = TRUE]
               ELSE [@ EXCEPT !.pc = "call_done", !.requested = TRUE,
                              !.pending = Some(step.result)]]
    /\ UNCHANGED <<pipelineIdleVars, seen_hashes>>
    /\ UNCHANGED assessVars

\* _post_with_retry of task t: the awaited backoff sleep ends
TaskSleep(t) ==
    /\ pc = "pipeline"
    /\ tasks[t].pc = "sleep"
    /\ tasks' = [tasks EXCEPT ![t] =
           IF AfterSleep(tasks[t].attempt) = "post"
           THEN [@ EXCEPT !.pc = "post", !.attempt = @ + 1]
           ELSE [@ EXCEPT !.pc = "call_done",
                          !.pending = Some(Raise("ModelCallError",
                                                 "Model call failed after retries."))]]
    /\ UNCHANGED <<pipelineIdleVars, seen_hashes>>
    /\ UNCHANGED assessVars

\* extract of task t after a transport call ended, up to the next await or, through
\* assess, to the end of run
TaskHandle(t) ==
    /\ pc = "pipeline"
    /\ tasks[t].pc = "call_done"
    /\ LET tk == tasks[t]
           r == IF Raised(Val(tk.pending)) THEN Val(tk.pending)
                ELSE _parse_payload(Val(Val(tk.pending).value))
           next == ExtractNext(tk.stage, r)
       IN  tasks' = [tasks EXCEPT ![t] =
               IF next \in {"retry", "fallback"}
               THEN [@ EXCEPT !.pc = "post", !.stage = next, !.attempt = 0,
                              !.pending = None]
               ELSE IF next = "return"
                    THEN [@ EXCEPT !.pc = "done", !.pending = None,
                                   !.result = Some(Ok(RunEnd(Val(r.value), tk.quality,
                                                             tk.img.phash))),
                                   !.steps = Append(@, "assess")]
                    ELSE [@ EXCEPT !.pc = "done", !.pending = None, !.result = Some(r)]]
    /\ UNCHANGED <<pipelineIdleVars, seen_hashes>>
    /\ UNCHANGED assessVars

NextPipeline ==
    \E t \in 1..MaxTasks :
        \/ TaskRun(t)
        \/ \E o \in PipelineOutcomes : TaskPost(t, o)
        \/ TaskSleep(t)
        \/ TaskHandle(t)

SpecPipeline == InitPipeline /\ [][NextPipeline]_vars

-----------------------------------------------------------------------------
(* Pipelines constructed as KYCPipeline(api_key, seen_hashes=s) around one set s  *)
(* of the caller, and run called on them, each call awaited before the next.      *)

MaxRuns == 2
Pipelines == {1, 2}

\* the fingerprints the caller's set may hold when the pipelines are constructed
Fingerprints == {img.phash : img \in {i \in PipelineImages : i.pil_opens}}

\* identity of the caller's set, and of the set a pipeline creates for itself
CallerSet == "caller"
OwnSet(p) == IF p = 1 THEN "own_1" ELSE "own_2"

\* what extract of a call of run ends in
ExtractResults ==
    {Ok(PayloadClean),
     Raise("ModelCallError", "Model call failed after retries."),
     Raise("SchemaValidationError", "Failed to parse structured output")}

\* KYCPipeline.__init__: self.seen_hashes = seen_hashes or set(). The identity of
\* the set the attribute refers to, given the argument arg and the identity fresh
\* of a newly created set: an empty set is falsy
SeenHashesOrSet(h, arg, fresh) == IF h[arg] # {} THEN arg ELSE fresh

InitShared ==
    /\ AssessIdle
    /\ files = <<>> /\ idx = 0 /\ results = <<>> /\ summary_written = FALSE
    /\ escaped = "none" /\ pc = "shared" /\ stage = "none" /\ attempt = 0
    /\ quality = 0 /\ pending = None /\ steps = <<>> /\ requests = <<>>
    /\ call_log = <<>> /\ sleeps = <<>> /\ calls = <<>>
    /\ seen_hashes = {}
    /\ tasks = <<>>
    /\ heap \in [{CallerSet} -> SUBSET Fingerprints]
    /\ pipelines = [p \in Pipelines |-> "none"]
    /\ run_log = <<>>

sharedIdleVars == <<files, idx, results, summary_written, escaped, pc, stage, attempt,
                    quality, pending, steps, requests, call_log, sleeps, calls,
                    seen_hashes, tasks>>

\* KYCPipeline(api_key, seen_hashes=<the caller's set>)
Construct(p) ==
    /\ pc = "shared"
    /\ pipelines[p] = "none"
    /\ LET ref == SeenHashesOrSet(heap, CallerSet, OwnSet(p))
       IN  /\ pipelines' = [pipelines EXCEPT ![p] = ref]
           /\ heap' = IF ref = CallerSet THEN heap ELSE heap @@ (ref :> {})
    /\ UNCHANGED run_log
    /\ UNCHANGED sharedIdleVars
    /\ UNCHANGED assessVars

\* what a call of run ends in, given the outcome r of its duplicate check and
\* quality check and the result x of extract: the first failure, or the response
RunResult(r, x, img) ==
    IF Raised(r.result) THEN r.result
    ELSE IF Raised(x) THEN x
         ELSE Ok(RunEnd(Val(x.value), Val(r.result.value), img.phash))

\* the record of a call of run that ended in res
RunLogEntry(p, img, res) ==
    [pipeline |-> p, img |-> img, exc |-> res.exc,
     status |-> IF Raised(res) THEN "none" ELSE Val(res.value).status]

\* await pipeline.run(image_bytes) on pipeline p, extract ending in x
RunCall(p, img, x) ==
    /\ pc = "shared"
    /\ pipelines[p] # "none"
    /\ Len(run_log) < MaxRuns
    /\ heap' = [heap EXCEPT ![pipelines[p]] = RunStart(img, heap[pipelines[p]]).seen]
    /\ run_log' = Append(run_log,
           RunLogEntry(p, img, RunResult(RunStart(img, heap[pipelines[p]]), x, img)))
    /\ UNCHANGED pipelines
    /\ UNCHANGED sharedIdleVars
    /\ UNCHANGED assessVars

NextShared ==
    \/ \E p \in Pipelines : Construct(p)
    \/ \E p \in Pipelines, img \in PipelineImages, x \in ExtractResults : RunCall(p, img, x)

SpecShared == InitShared /\ [][NextShared]_vars

-----------------------------------------------------------------------------
(* Properties of FireworksExtractor.extract and _post_with_retry *)

\* extract has just ended by raising a service-call or schema failure
ExtractRaisedFailure ==
    /\ pc = "run_done"
    /\ stage # "none"
    /\ Raised(Val(pending))
    /\ ExcType(Val(pending)) \in {"ModelCallError", "SchemaValidationError"}

FallbackRequests == {i \in 1..Len(requests) : requests[i].body = "fallback_body"}
PrimaryCalls == {i \in 1..Len(calls) : calls[i].body = "body"}
FallbackCalls == {i \in 1..Len(calls) : calls[i].body = "fallback_body"}

\* C1: whenever extract ends by raising ModelCallError or SchemaValidationError, a
\* request built from the fallback model was posted before the raise. The code
\* violates it: a ModelCallError of the one-time primary retry propagates at once.
C1_RaiseOnlyAfterFallback ==
    ExtractRaisedFailure => FallbackRequests # {}

\* the response the last finished transport call returned
LastBody == call_log[Len(call_log)].body

\* a response whose text is not JSON, or whose JSON fails the payload schema
C2_Unparsable(body) == body.tag \in {"content_not_json", "schema_invalid"}

\* such a response is reported by extract as a SchemaValidationError
C2_UnparsableIsSchemaError ==
    (/\ pc = "call_done"
     /\ ~Raised(Val(pending))
     /\ C2_Unparsable(Val(Val(pending).value)))
    => calls'[Len(calls')].parse = "SchemaValidationError"

\* the primary is called at most twice and the fallback at most once; when the
\* primary's first response and its retry both fail to parse, extract ends only
\* after exactly one fallback call, and a fallback response that parses is the
\* payload returned; a primary response that parses (first call or retry) is
\* returned with no request to the fallback.
C2_Calls ==
    /\ Cardinality(PrimaryCalls) <= 2
    /\ Cardinality(FallbackCalls) <= 1
    /\ (pc = "run_done" /\ stage # "none") =>
          LET n == Len(calls)
          IN  /\ (/\ n >= 2
                  /\ calls[1].parse = "SchemaValidationError"
                  /\ calls[2].body = "body"
                  /\ calls[2].parse = "SchemaValidationError")
                 => /\ n = 3
                    /\ Cardinality(FallbackCalls) = 1
                    /\ calls[3].body = "fallback_body"
                    /\ (calls[3].result = "ok" /\ LastBody.tag = "valid")
                       => /\ ~Raised(Val(pending))
                          /\ Val(Val(pending).value).payload = LastBody.payload
              /\ (calls[n].body = "body" /\ calls[n].result = "ok" /\ LastBody.tag = "valid")
                 => /\ FallbackRequests = {}
                    /\ ~Raised(Val(pending))
                    /\ Val(Val(pending).value).payload = LastBody.payload

\* C2: when the primary's response is unparsable (or fails the schema) on the first
\* call and again on the single retry, the fallback is called exactly once and its
\* valid payload is the value returned; a primary response that parses is returned
\* with no fallback request; the primary is never called a third time.
C2_ParseRetryThenFallback == []C2_Calls /\ [][C2_UnparsableIsSchemaError]_vars

\* witness of C2: two unparsable primary responses, then the fallback's valid
\* payload returned
C2_Witness ==
    /\ pc = "run_done"
    /\ Len(calls) = 3
    /\ calls[1].parse = "SchemaValidationError"
    /\ calls[2].parse = "SchemaValidationError"
    /\ calls[3].body = "fallback_body"
    /\ ~Raised(Val(pending))
    /\ Val(Val(pending).value).payload = Some(PayloadClean)

\* the retryable failures, as the specification lists them
C3_RetryableFailure(o) ==
    \/ o.kind = "network"
    \/ o.kind = "status" /\ o.code \in {429, 500, 502, 503, 504}
C3_Success(o) == o.kind = "status" /\ o.code = 200
C3_FatalStatus(o) == o.kind = "status" /\ ~C3_Success(o) /\ ~C3_RetryableFailure(o)

\* C3: a transport call posts at most max_retries times; every failure it went on
\* from was a retryable one; when it returns, it returns the body of the first
\* successful response; and, fatal statuses aside, it raises ModelCallError exactly
\* when all max_retries attempts ended in a retryable failure.
C3_TransportRetry ==
    /\ Len(call_log) <= MAX_RETRIES
    /\ \A i \in 1..(Len(call_log) - 1) : C3_RetryableFailure(call_log[i])
    /\ pc = "call_done" =>
          LET r == Val(pending)
              last == call_log[Len(call_log)]
          IN  /\ ~Raised(r) => (C3_Success(last) /\ Val(r.value) = last.body)
              /\ (C3_Success(last) /\ last.body.tag # "not_json") => ~Raised(r)
              /\ ~C3_FatalStatus(last) =>
                    ((Raised(r) /\ ExcType(r) = "ModelCallError")
                     <=> (/\ Len(call_log) = MAX_RETRIES
                          /\ \A i \in 1..Len(call_log) : C3_RetryableFailure(call_log[i])))

\* witness of C3: a 503 followed by a 200 returns the 200's body
C3_Witness ==
    /\ pc = "call_done"
    /\ Len(call_log) = 2
    /\ call_log[1].kind = "status" /\ call_log[1].code = 503
    /\ C3_Success(call_log[2])
    /\ ~Raised(Val(pending))

\* C4: a non-retryable HTTP error status ends its transport call at once with
\* ModelCallError: it is the last POST of the call and no sleep follows it,
\* whichever attempt it occurs on; and when the primary's first transport call
\* ends in ModelCallError, extract goes on to the fallback.
C4_FatalStatusEndsCall ==
    /\ \A i \in 1..Len(call_log) :
          C3_FatalStatus(call_log[i]) =>
             /\ i = Len(call_log)
             /\ pc \in {"call_done", "run_done"}
             /\ Len(sleeps) = i - 1
             /\ calls[Len(calls)].posts = i
             /\ calls[Len(calls)].sleeps = i - 1
             /\ calls[Len(calls)].result = "ModelCallError"
    /\ (Len(calls) >= 1 /\ calls[1].result = "ModelCallError" /\ calls[1].parse # "none") =>
          /\ stage = "fallback"
          /\ \A i \in (calls[1].posts + 1)..Len(requests) : requests[i].body = "fallback_body"
          /\ pc = "run_done" => FallbackRequests # {}

\* witness of C4: the primary's first call got a 404 on its third attempt, and the
\* fallback was then posted to
C4_Witness ==
    /\ Len(calls) >= 2
    /\ calls[1].body = "body" /\ calls[1].posts = 3 /\ calls[1].sleeps = 2
    /\ calls[1].result = "ModelCallError"
    /\ calls[2].body = "fallback_body"
    /\ FallbackRequests # {}

-----------------------------------------------------------------------------
(* Properties of KYCPipeline.run, run_single_file and run_batch *)

\* the run of files[idx] has ended by raising a TechnicalRejectError with message m
RunRejected(m) ==
    /\ Raised(Val(pending))
    /\ ExcType(Val(pending)) = "TechnicalRejectError"
    /\ ExcMsg(Val(pending)) = m

\* C5: when the bytes of the file being processed were submitted earlier in the same
\* process run, the run ends in TechnicalRejectError("Duplicate upload detected.")
\* right after the fingerprint check: no quality check, no resize, no request.
\* The code violates it: run_single_file builds a new KYCPipeline, with an empty
\* fingerprint set, for every file.
C5_SecondSubmissionRejected ==
    (pc = "run_done" /\ \E i \in 1..(idx - 1) : files[i].bytes = files[idx].bytes)
    => /\ RunRejected("Duplicate upload detected.")
       /\ steps = <<"calculate_phash", "dedup">>
       /\ requests = <<>>

\* C6: in run_single_file a TechnicalRejectError becomes a returned result with
\* status RETRY_UPLOAD whose only issue is the failure message, a ModelCallError or
\* SchemaValidationError becomes a returned result with status SYSTEM_ERROR and one
\* issue carrying the failure message, and none of the three ever propagates.
C6_ExpectedFailuresBecomeResults ==
    /\ escaped \notin {"TechnicalRejectError", "ModelCallError", "SchemaValidationError"}
    /\ \A i \in 1..Len(results) :
          LET res == results[i].result
              exc == results[i].raised
          IN  /\ (exc # None /\ Val(exc).type = "TechnicalRejectError")
                 => /\ res.status = "RETRY_UPLOAD"
                    /\ Len(res.issues) = 1
                    /\ res.issues[1].msg = Val(exc).msg
                    /\ res.issues[1].cause = ""
              /\ (exc # None /\ Val(exc).type \in {"ModelCallError", "SchemaValidationError"})
                 => /\ res.status = "SYSTEM_ERROR"
                    /\ Len(res.issues) = 1
                    /\ res.issues[1].msg = "API/parsing failure: "
                    /\ res.issues[1].cause = Val(exc).msg
              /\ exc # None => Val(exc).type \in {"TechnicalRejectError", "ModelCallError",
                                                  "SchemaValidationError"}

\* witness of C6: one run that ended in a quality rejection and one that ended in a
\* schema failure, both recorded as results
C6_Witness ==
    /\ Len(results) = 2
    /\ results[1].raised # None /\ Val(results[1].raised).type = "TechnicalRejectError"
    /\ results[1].result.status = "RETRY_UPLOAD"
    /\ results[2].raised # None /\ Val(results[2].raised).type = "SchemaValidationError"
    /\ results[2].result.status = "SYSTEM_ERROR"

\* C7: run_batch never aborts: no exception leaves it, and a run over a non-empty
\* directory ends with one recorded result per file and the summary written.
\* The code violates it: an exception run_single_file does not catch (an image PIL
\* cannot open, an IndexError or JSONDecodeError out of extract) ends the whole run.
C7_BatchNeverAborts ==
    /\ pc # "aborted"
    /\ escaped = "none"
    /\ (pc = "batch_done" /\ files # <<>>) =>
          (summary_written /\ Len(results) = Len(files))

Undecodable(img) == ~img.pil_opens /\ ~img.cv_decodes

\* C8: an image whose bytes cannot be decoded is rejected by KYCPipeline.run with
\* TechnicalRejectError and recorded by run_single_file as RETRY_UPLOAD.
\* The code violates it: calculate_phash runs first and raises PIL's
\* UnidentifiedImageError, which nothing catches.
C8_UndecodableIsRetryUpload ==
    /\ (pc = "run_done" /\ Undecodable(files[idx]))
       => (Raised(Val(pending)) /\ ExcType(Val(pending)) = "TechnicalRejectError")
    /\ (pc = "aborted" => ~Undecodable(files[idx]))
    /\ \A i \in 1..Len(results) :
          Undecodable(files[i]) => results[i].result.status = "RETRY_UPLOAD"

-----------------------------------------------------------------------------
(* Properties of DocumentValidator.assess *)

\* the status the specification gives to a score in thousandths
C9_StatusOf(ucs, status) ==
    /\ ucs >= 900 => status = "SUCCESS"
    /\ (ucs >= 700 /\ ucs < 900) => status = "MANUAL_REVIEW"
    /\ ucs < 700 => status = "RETRY_UPLOAD"

\* C9: the status assess returns is SUCCESS for ucs >= 0.9, MANUAL_REVIEW for
\* 0.7 <= ucs < 0.9 and RETRY_UPLOAD below, never SYSTEM_ERROR; a result of the
\* pipeline built from an assessment follows the same rule, and a result has status
\* SYSTEM_ERROR only when extract raised ModelCallError or SchemaValidationError.
C9_StatusFromScore ==
    /\ outcome # None =>
          /\ C9_StatusOf(Val(outcome).ucs, Val(outcome).status)
          /\ Val(outcome).status # "SYSTEM_ERROR"
    /\ \A i \in 1..Len(results) :
          LET res == results[i].result
              exc == results[i].raised
          IN  /\ exc = None => (C9_StatusOf(res.score, res.status) /\ res.status # "SYSTEM_ERROR")
              /\ res.status = "SYSTEM_ERROR" =>
                    (exc # None /\ Val(exc).type \in {"ModelCallError", "SchemaValidationError"})

\* witness of C9: an assessment whose score is exactly 0.9
C9_Witness ==
    /\ outcome # None
    /\ Val(outcome).ucs = 900
    /\ Val(outcome).status = "SUCCESS"

C10_Clamp(x) == IF x < 0 THEN 0 ELSE IF x > 100 THEN 100 ELSE x

\* C10: ucs = 0.4*clamp(ai_confidence) + 0.2*clamp(image_quality/100) + 0.4*logic_score,
\* so 0 <= ucs <= 1, an image quality of 100 or more contributes exactly 0.2, and
\* ucs does not decrease when ai_confidence, image_quality or logic_score grows.
C10_UcsFormula ==
    outcome # None =>
       LET o == Val(outcome)
           ai == extraction.ai_confidence
           q == image_quality
           l == o.logic_score
       IN  /\ o.ucs = 4 * C10_Clamp(ai) + 2 * C10_Clamp(q) + 4 * l
           /\ o.ucs >= 0 /\ o.ucs <= 1000
           /\ l >= 0 /\ l <= 100
           /\ q >= 100 => o.ucs - 4 * C10_Clamp(ai) - 4 * l = 200
           /\ \A ai2 \in AiValues : ai2 >= ai => Ucs(ai2, q, l) >= o.ucs
           /\ \A q2 \in QualityValues : q2 >= q => Ucs(ai, q2, l) >= o.ucs
           /\ \A l2 \in 0..100 : l2 >= l => Ucs(ai, q, l2) >= o.ucs

\* witness of C10: an out-of-range confidence and an image quality above 100
C10_Witness ==
    /\ outcome # None
    /\ extraction.ai_confidence > 100
    /\ image_quality > 100
    /\ Val(outcome).logic_score = 70
    /\ Val(outcome).ucs = 880

-----------------------------------------------------------------------------
(* Properties of DocumentValidator._logic_checks *)

\* a date as one number, for comparing dates
C11_Ord(dt) == dt.y * 10000 + dt.m * 100 + dt.d

\* how often field f occurs in the list fl
CountOf(fl, f) == Cardinality({i \in 1..Len(fl) : fl[i] = f})

\* the texts of the issues in il
IssueTexts(il) == {il[i].msg : i \in 1..Len(il)}

C11_DateRule(doc) ==
    /\ doc.expiry_date # None /\ doc.issue_date # None
    /\ C11_Ord(Val(doc.expiry_date)) <= C11_Ord(Val(doc.issue_date))

C11_BirthRule(doc) ==
    /\ doc.birth_date # None /\ doc.expiry_date # None
    /\ C11_Ord(Val(doc.birth_date)) > C11_Ord(Val(doc.expiry_date))

\* C11: when a record is selected, the date-ordering rule fires exactly when issue
\* and expiry are present and expiry <= issue (0.2, flags expiry_date), the birth
\* rule exactly when birth and expiry are present and birth > expiry (0.2, flags
\* birth_date), each rule fires at most once, and logic_score is one minus the sum,
\* capped at one, of the penalties of the rules that fired; issue 2020-01-01 with
\* expiry 2019-01-01 and no other violation gives 0.8 with only expiry_date flagged.
C11_PenaltyRules ==
    (outcome # None /\ _select_doc(extraction) # None) =>
       LET doc == Val(_select_doc(extraction))
           o == Val(outcome)
           fl == o.flagged_fields
           sum == 20 * CountOf(fl, "expiry_date") + 20 * CountOf(fl, "birth_date")
                  + 20 * CountOf(fl, "document_number") + 30 * CountOf(fl, "mrz_raw")
       IN  /\ CountOf(fl, "expiry_date") = (IF C11_DateRule(doc) THEN 1 ELSE 0)
           /\ CountOf(fl, "birth_date") = (IF C11_BirthRule(doc) THEN 1 ELSE 0)
           /\ C11_DateRule(doc) <=> "Expiry must be later than issue date." \in IssueTexts(o.issues)
           /\ C11_BirthRule(doc) <=> "Birth date after expiry." \in IssueTexts(o.issues)
           /\ \A f \in {"document_number", "mrz_raw"} : CountOf(fl, f) <= 1
           /\ \A i \in 1..Len(fl) :
                 fl[i] \in {"expiry_date", "birth_date", "document_number", "mrz_raw"}
           /\ o.logic_score = 100 - (IF sum < 100 THEN sum ELSE 100)
           /\ (/\ doc.issue_date = Some(Date(2020, 1, 1))
               /\ doc.expiry_date = Some(Date(2019, 1, 1))
               /\ CountOf(fl, "birth_date") + CountOf(fl, "document_number")
                     + CountOf(fl, "mrz_raw") = 0)
              => (o.logic_score = 80 /\ fl = <<"expiry_date">>)

\* witness of C11: issue 2020-01-01, expiry 2019-01-01, nothing else wrong
C11_Witness ==
    /\ outcome # None
    /\ _select_doc(extraction) # None
    /\ Val(_select_doc(extraction)).issue_date = Some(Date(2020, 1, 1))
    /\ Val(_select_doc(extraction)).expiry_date = Some(Date(2019, 1, 1))
    /\ Val(outcome).logic_score = 80
    /\ Val(outcome).flagged_fields = <<"expiry_date">>

\* line 2 of the machine-readable zone with its spaces removed; empty when there is
\* no second line
C12_Line2(mrz) ==
    LET lines == SplitLines(Strip(mrz))
    IN  IF Len(lines) < 2 THEN <<>> ELSE RemoveChar(lines[2], " ")

\* the three sub-checks of the cross-check, on a line 2 of at least 44 characters
C12_NumMismatch(doc) ==
    LET num == Strip(RemoveChar(Slice(C12_Line2(Val(doc.mrz_raw)), 0, 9), "<"))
    IN  /\ TruthyStr(doc.document_number)
        /\ num # <<>>
        /\ ~StartsWith(Val(doc.document_number), Slice(num, 0, 6))
C12_BirthMismatch(doc) ==
    /\ doc.birth_date # None
    /\ Slice(C12_Line2(Val(doc.mrz_raw)), 13, 19) # Strftime_ymd(Val(doc.birth_date))
C12_ExpiryMismatch(doc) ==
    /\ doc.expiry_date # None
    /\ Slice(C12_Line2(Val(doc.mrz_raw)), 21, 27) # Strftime_ymd(Val(doc.expiry_date))

C12_Mismatches(doc) ==
    (IF C12_NumMismatch(doc) THEN {"MRZ doc# mismatch"} ELSE {})
    \cup (IF C12_BirthMismatch(doc) THEN {"MRZ birth mismatch"} ELSE {})
    \cup (IF C12_ExpiryMismatch(doc) THEN {"MRZ expiry mismatch"} ELSE {})

\* the positions of the issues the MRZ rule added
C12_MrzIssues(il) ==
    {i \in 1..Len(il) : il[i].msg \in {"MRZ doc# mismatch", "MRZ birth mismatch",
                                       "MRZ expiry mismatch",
                                       "MRZ incomplete (expected 2+ lines)"}}

\* a passport payload whose record carries a machine-readable zone
C12_PassportWithMrz ==
    /\ extraction.document_type = "passport"
    /\ extraction.passport # None
    /\ TruthyStr(Val(extraction.passport).mrz_raw)

\* C12: for a passport whose mrz_raw has a complete second line, every mismatching
\* sub-check (document number, birth date, expiry date) adds its own issue, and the
\* 0.3 penalty and the mrz_raw flag are added exactly once when one, two or three
\* sub-checks mismatch and not at all when none does.
C12_MrzPenaltyOnce ==
    (/\ outcome # None
     /\ C12_PassportWithMrz
     /\ Len(C12_Line2(Val(Val(extraction.passport).mrz_raw))) >= 44) =>
       LET doc == Val(extraction.passport)
           o == Val(outcome)
           fl == o.flagged_fields
           mm == C12_Mismatches(doc)
           mi == C12_MrzIssues(o.issues)
           other == 20 * (CountOf(fl, "expiry_date") + CountOf(fl, "birth_date")
                          + CountOf(fl, "document_number"))
       IN  /\ {o.issues[i].msg : i \in mi} = mm
           /\ Cardinality(mi) = Cardinality(mm)
           /\ \A i, j \in mi : i # j => o.issues[i] # o.issues[j]
           /\ CountOf(fl, "mrz_raw") = (IF mm # {} THEN 1 ELSE 0)
           /\ o.logic_score = 100 - other - (IF mm # {} THEN 30 ELSE 0)

\* witness of C12: all three sub-checks mismatch, one penalty and one flag
C12_Witness ==
    /\ outcome # None
    /\ C12_PassportWithMrz
    /\ Len(C12_Line2(Val(Val(extraction.passport).mrz_raw))) >= 44
    /\ Cardinality(C12_Mismatches(Val(extraction.passport))) = 3
    /\ CountOf(Val(outcome).flagged_fields, "mrz_raw") = 1
    /\ CountOf(Val(outcome).flagged_fields, "expiry_date") = 0
    /\ Val(outcome).logic_score = 30

\* C13: for a passport whose mrz_raw has no second line, or a second line of fewer
\* than 44 characters, the cross-check reports an "MRZ incomplete" issue and compares
\* no field, and the MRZ rule fires (mrz_raw flagged once, 0.3 penalty). The code
\* violates it: a second line shorter than 44 characters yields no issue at all.
C13_IncompleteMrzReported ==
    (/\ outcome # None
     /\ C12_PassportWithMrz
     /\ Len(C12_Line2(Val(Val(extraction.passport).mrz_raw))) < 44) =>
       LET o == Val(outcome)
           fl == o.flagged_fields
           other == 20 * (CountOf(fl, "expiry_date") + CountOf(fl, "birth_date")
                          + CountOf(fl, "document_number"))
       IN  /\ {o.issues[i].msg : i \in C12_MrzIssues(o.issues)}
                 = {"MRZ incomplete (expected 2+ lines)"}
           /\ CountOf(fl, "mrz_raw") = 1
           /\ o.logic_score = 100 - other - 30

\* the result _logic_checks returns when no record is selected
C14_MissingResult(o) ==
    /\ o.logic_score = 0
    /\ o.flagged_fields = <<"document_type">>
    /\ Len(o.issues) = 1
    /\ o.issues[1].msg = "Missing document payload"

\* C14: the record used is the one matching document_type, and under unknown the
\* passport record if non-null, else the license record; the "Missing document
\* payload" result is returned if and only if neither sub-record exists. The code
\* violates the "only if": with document_type passport and no passport record the
\* result is "missing" although a drivers_license record exists (and vice versa).
C14_MissingIffNeitherExists ==
    outcome # None =>
       /\ (extraction.document_type = "passport"
              => _select_doc(extraction) = extraction.passport)
       /\ (extraction.document_type = "drivers_license"
              => _select_doc(extraction) = extraction.drivers_license)
       /\ (extraction.document_type = "unknown" =>
              _select_doc(extraction) = (IF extraction.passport # None
                                         THEN extraction.passport
                                         ELSE extraction.drivers_license))
       /\ C14_MissingResult(Val(outcome))
             <=> (extraction.passport = None /\ extraction.drivers_license = None)

\* the selected record is the passport record
C19_PassportSelected ==
    \/ extraction.document_type = "passport"
    \/ extraction.document_type = "unknown" /\ extraction.passport # None

\* C19: every selected record that has a document_number gets the shape rule of its
\* kind (passport ^[A-Z0-9]{6,9}$, license ^[A-Z0-9-]{5,20}$; 0.2 and the
\* document_number flag on a mismatch), and a selected passport record with mrz_raw
\* gets the MRZ cross-check, also when it was selected under document_type unknown.
\* The code violates it: both rules are skipped under document_type unknown.
C19_RulesOnEverySelectedRecord ==
    (outcome # None /\ _select_doc(extraction) # None) =>
       LET doc == Val(_select_doc(extraction))
           fl == Val(outcome).flagged_fields
           numBad == /\ TruthyStr(doc.document_number)
                     /\ IF C19_PassportSelected
                        THEN ~PASSPORT_NUMBER_PATTERN(Val(doc.document_number))
                        ELSE ~DRIVER_LICENSE_PATTERN(Val(doc.document_number))
       IN  /\ CountOf(fl, "document_number") = (IF numBad THEN 1 ELSE 0)
           /\ (/\ C19_PassportSelected
               /\ TruthyStr(doc.mrz_raw)
               /\ Len(C12_Line2(Val(doc.mrz_raw))) >= 44)
              => CountOf(fl, "mrz_raw") = (IF C12_Mismatches(doc) # {} THEN 1 ELSE 0)

\* C18: every response that cannot be turned into a valid payload (no choices, an
\* empty choices list, content that is not JSON, a 200 body that is not JSON, a
\* payload that fails the schema) is reported as SchemaValidationError: a 200
\* response always reaches the parser, the parser ends in a payload or in
\* SchemaValidationError, and extract raises nothing but ModelCallError and
\* SchemaValidationError. The code violates it: an empty choices list raises
\* IndexError and a 200 body that is not JSON raises JSONDecodeError.
C18_UnparsableIsSchemaError ==
    /\ \A i \in 1..Len(calls) :
          /\ calls[i].result \in {"ok", "ModelCallError"}
          /\ calls[i].parse \in {"none", "ok", "ModelCallError", "SchemaValidationError"}
    /\ (pc = "call_done" /\ C3_Success(call_log[Len(call_log)])) => ~Raised(Val(pending))
    /\ (pc = "run_done" /\ stage # "none" /\ Raised(Val(pending)))
          => ExcType(Val(pending)) \in {"ModelCallError", "SchemaValidationError"}
    /\ escaped \notin {"IndexError", "JSONDecodeError"}

-----------------------------------------------------------------------------
(* Properties of the fingerprint set and of the order of the pipeline's steps *)

\* the result recorded for a run that was rejected as a duplicate
C15_DuplicateResult(res) ==
    /\ res.status = "RETRY_UPLOAD"
    /\ Len(res.issues) = 1
    /\ res.issues[1].msg = "Duplicate upload detected."

\* C15: within one run_batch, a file whose fingerprint equals that of a file
\* processed earlier in the batch is recorded as RETRY_UPLOAD with the
\* duplicate-upload message, and no model request is made for it. The code violates
\* it: every file gets a new KYCPipeline whose fingerprint set is empty.
C15_BatchKeepsFingerprints ==
    /\ \A j \in 1..Len(results) :
          (\E i \in 1..(j - 1) : files[i].phash = files[j].phash)
             => C15_DuplicateResult(results[j].result)
    /\ (/\ pc \in {"post", "sleep", "call_done", "run_done"}
        /\ \E i \in 1..(idx - 1) : files[i].phash = files[idx].phash)
       => requests = <<>>

\* the run of task tk got past the duplicate check (it went on to the quality gate)
PassedDuplicateCheck(tk) ==
    /\ Len(tk.steps) >= 3
    /\ SubSeq(tk.steps, 1, 3) = <<"calculate_phash", "dedup", "quality_check">>

\* the run of task tk ended at the duplicate check
DuplicateRejected(tk) ==
    /\ tk.pc = "done"
    /\ Raised(Val(tk.result))
    /\ ExcType(Val(tk.result)) = "TechnicalRejectError"
    /\ ExcMsg(Val(tk.result)) = "Duplicate upload detected."
    /\ tk.steps = <<"calculate_phash", "dedup">>

\* the runs that have started and whose image has fingerprint h
StartedWith(h) ==
    {t \in 1..Len(tasks) : tasks[t].pc # "ready" /\ tasks[t].img.pil_opens
                           /\ tasks[t].img.phash = h}

\* C16: of the runs on one pipeline that have the same fingerprint, however they
\* are interleaved at their awaits, exactly one gets past the duplicate check and
\* goes on to the quality gate; every other one raises the duplicate rejection.
C16_OnePassesDuplicateCheck ==
    \A h \in {img.phash : img \in PipelineImages} :
       StartedWith(h) # {} =>
          /\ Cardinality({t \in StartedWith(h) : PassedDuplicateCheck(tasks[t])}) = 1
          /\ \A t \in StartedWith(h) :
                PassedDuplicateCheck(tasks[t]) \/ DuplicateRejected(tasks[t])

\* witness of C16: the first run is suspended in a backoff sleep when the second
\* run, with the same fingerprint, is rejected as a duplicate
C16_Witness ==
    /\ Len(tasks) >= 2
    /\ tasks[1].img = ImgSharp /\ tasks[1].pc = "sleep"
    /\ tasks[2].img = ImgSharp /\ DuplicateRejected(tasks[2])

\* the steps of KYCPipeline.run in their order
RunOrder == <<"calculate_phash", "dedup", "quality_check", "smart_resize", "extract",
              "assess">>

\* C17: every run performs a prefix of fingerprint, duplicate check, quality gate,
\* normalize, extract, validate/aggregate, in this order; a request goes to the
\* model service only from a run whose image PIL and OpenCV decode, whose sharpness
\* is at least the threshold and whose fingerprint was new, after the quality gate
\* and the resize; a run rejected as duplicate or by the quality gate has made no
\* request; and validation runs only after extract returned a payload.
C17_StepsInOrderFailFast ==
    \A t \in 1..Len(tasks) :
       LET tk == tasks[t]
       IN  /\ Len(tk.steps) <= Len(RunOrder)
           /\ tk.steps = SubSeq(RunOrder, 1, Len(tk.steps))
           /\ tk.requested =>
                 /\ tk.img.pil_opens /\ tk.img.cv_decodes
                 /\ tk.img.variance >= 80
                 /\ PassedDuplicateCheck(tk)
                 /\ Len(tk.steps) >= 5
                 /\ \A u \in 1..Len(tasks) :
                       (u # t /\ tasks[u].img.phash = tk.img.phash) => ~tasks[u].requested
           /\ (/\ tk.pc = "done"
               /\ Raised(Val(tk.result))
               /\ ExcType(Val(tk.result)) = "TechnicalRejectError") => ~tk.requested
           /\ tk.pc \in {"post", "sleep", "call_done"} => Len(tk.steps) = 5
           /\ Len(tk.steps) = 6 =>
                 /\ tk.pc = "done"
                 /\ tk.requested
                 /\ ~Raised(Val(tk.result))
                 /\ Val(Val(tk.result).value).payload # None

\* witness of C17: one run went through all six steps, another was rejected as
\* blurry or as duplicate without a request
C17_Witness ==
    \E t, u \in 1..Len(tasks) :
       /\ tasks[t].steps = RunOrder /\ tasks[t].pc = "done"
       /\ tasks[u].pc = "done" /\ ~tasks[u].requested
       /\ Raised(Val(tasks[u].result))
       /\ ExcMsg(Val(tasks[u].result)) \in {"Image too blurry", "Duplicate upload detected."}

\* the set holds exactly the fingerprints of the runs that reached the duplicate
\* check, whatever became of them afterwards
C20_SetHoldsEveryFingerprint ==
    /\ \A t \in 1..Len(tasks) :
          (tasks[t].pc # "ready" /\ tasks[t].img.pil_opens)
             => tasks[t].img.phash \in seen_hashes
    /\ \A h \in seen_hashes :
          \E t \in 1..Len(tasks) : PassedDuplicateCheck(tasks[t]) /\ tasks[t].img.phash = h

\* one step of a pipeline: the set never shrinks; a run whose fingerprint is new
\* passes the duplicate check and its fingerprint is in the set at once; a run whose
\* fingerprint is in the set, and so every run whose bytes were submitted before,
\* ends in the duplicate rejection
C20_Step ==
    /\ seen_hashes \subseteq seen_hashes'
    /\ \A t \in 1..Len(tasks) :
          (tasks[t].pc = "ready" /\ tasks'[t].pc # "ready" /\ tasks[t].img.pil_opens) =>
             /\ IF tasks[t].img.phash \in seen_hashes
                THEN DuplicateRejected(tasks'[t]) /\ seen_hashes' = seen_hashes
                ELSE /\ PassedDuplicateCheck(tasks'[t])
                     /\ seen_hashes' = seen_hashes \cup {tasks[t].img.phash}
             /\ (\E u \in 1..Len(tasks) :
                    /\ u # t /\ tasks[u].pc # "ready"
                    /\ tasks[u].img.bytes = tasks[t].img.bytes)
                => DuplicateRejected(tasks'[t])

\* C20: the fingerprint set of a pipeline only grows; a fingerprint is in it from
\* the moment its run passes the duplicate check, also when the run then fails the
\* quality gate or extraction; and a later submission of bytes whose fingerprint
\* was recorded is always rejected as duplicate.
C20_FingerprintSetOnlyGrows ==
    []C20_SetHoldsEveryFingerprint /\ [][C20_Step]_vars

\* witness of C20: a run ended in a blur rejection, and a second submission of the
\* same bytes was rejected as duplicate
C20_Witness ==
    /\ Len(tasks) >= 2
    /\ tasks[1].img = ImgBlurry /\ tasks[1].pc = "done"
    /\ ExcMsg(Val(tasks[1].result)) = "Image too blurry"
    /\ tasks[2].img = ImgBlurry /\ DuplicateRejected(tasks[2])
    /\ seen_hashes = {ImgBlurry.phash}

\* the call of run recorded in entry ended in the duplicate rejection
C21_Rejected(entry) ==
    /\ entry.exc # None
    /\ Val(entry.exc).type = "TechnicalRejectError"
    /\ Val(entry.exc).msg = "Duplicate upload detected."

\* C21: a pipeline constructed with a set of the caller reads and mutates that very
\* set, whatever the set holds, an empty set included: every fingerprint a run
\* records is in the caller's set, and of two runs with the same fingerprint, on
\* the same or on different pipelines around that set, the later one is rejected as
\* duplicate. The code violates it: "seen_hashes or set()" replaces an empty set
\* with a new one.
C21_CallerSetIsShared ==
    /\ \A p \in DOMAIN pipelines : pipelines[p] \in {"none", CallerSet}
    /\ \A i \in 1..Len(run_log) :
          run_log[i].img.pil_opens => run_log[i].img.phash \in heap[CallerSet]
    /\ \A i, j \in 1..Len(run_log) :
          (i < j /\ run_log[i].img.pil_opens
                 /\ run_log[i].img.phash = run_log[j].img.phash)
             => C21_Rejected(run_log[j])

-----------------------------------------------------------------------------
(* Properties of the decision policy *)

\* C22: status SUCCESS implies logic_score >= 0.8 (no MRZ mismatch and at most one
\* of the 0.2 rules fired); a payload with no sub-record has logic_score 0 and
\* status RETRY_UPLOAD; whenever a record is selected, logic_score >= 0.1; and
\* logic_score = 1.0 exactly when issues and flagged_fields are both empty. The
\* code violates the lower bound: with all four rules fired the binary64 sum of the
\* penalties is 0.9000000000000001 and logic_score is 0.09999999999999987.
C22_NoAutoApprovalOfInconsistent ==
    outcome # None =>
       LET o == Val(outcome)
           fl == o.flagged_fields
       IN  /\ o.status = "SUCCESS" =>
                 /\ ~FloatLess(o.logic_score_f, Float(80, 0))
                 /\ CountOf(fl, "mrz_raw") = 0
                 /\ CountOf(fl, "expiry_date") + CountOf(fl, "birth_date")
                       + CountOf(fl, "document_number") <= 1
           /\ (extraction.passport = None /\ extraction.drivers_license = None) =>
                 /\ o.logic_score_f = Float(0, 0)
                 /\ o.status = "RETRY_UPLOAD"
           /\ _select_doc(extraction) # None => ~FloatLess(o.logic_score_f, Float(10, 0))
           /\ o.logic_score_f = Float(100, 0) <=> (o.issues = <<>> /\ fl = <<>>)

====
